---- MODULE Spec2Model ----
(***************************************************************************)
(* Browser page pool (src/src/browser/pool.rs) and the concurrent batch    *)
(* scheduler that drives it (src/src/audit/batch.rs).                      *)
(*                                                                         *)
(* One work item = one task spawned by run_concurrent_batch.  Every await  *)
(* point and every atomic operation of BrowserPool::acquire,               *)
(* BrowserPoolInner::return_page and the spawned task is one action, so    *)
(* the interleavings of the multi-threaded runtime are the behaviours.     *)
(*                                                                         *)
(* tokio's Semaphore hands permits to waiters in FIFO order; here any      *)
(* waiter may take a free permit, which allows every FIFO schedule and     *)
(* more.  Time is abstract: the only clock event is the passing of an      *)
(* acquire's deadline (Expire).  Steps of one task that no await point     *)
(* separates and that touch disjoint state are taken together (the end of  *)
(* audit_url_with_pool, the drop of the handle and completed.fetch_add).   *)
(***************************************************************************)
EXTENDS Integers, Sequences, FiniteSets

\* ---------------------------------------------------------------- bounds
\* Number of URLs handed to run_concurrent_batch.
NumUrls == 2
\* Largest PoolConfig.max_pages tried.
MaxCapacity == 2
\* Largest BatchConfig.concurrency tried.
MaxConcurrency == 2

\* Longest Vec<AuditReport> aggregated on its own.
MaxReports == 3
\* Largest violation_count() of a report aggregated on its own.
MaxViolations == 1

\* Largest --concurrency tried on the command line.
MaxArgConcurrency == 11
\* Largest --max-pages tried on the command line.
MaxArgPages == 2
\* Args::validate: "Concurrency cannot exceed 10".
ConcurrencyLimit == 10

\* The work items: one spawned task per scheduled URL.
Items == 1..NumUrls

\* Option<Page>::None of PooledPage.page; pages are numbered from 1.
NoPage == 0

VARIABLES
    max_pages,        \* BrowserPoolInner.max_pages
    concurrency,      \* BatchConfig.concurrency
    pool_semaphore,   \* BrowserPoolInner.semaphore: permits available
    pages,            \* BrowserPoolInner.pages: the idle Vec<Page>
    pages_created,    \* BrowserPoolInner.pages_created
    batch_semaphore,  \* run_concurrent_batch's semaphore: permits available
    completed,        \* run_concurrent_batch's completed counter
    pc,               \* position of each item's task
    handle,           \* PooledPage.page of the item's handle (NoPage: none)
    result,           \* outcome of the item's audit_url_with_pool
    current,          \* the task's local `current`: the count its callback is given
    expired,          \* the item's acquire_timeout deadline has passed
    ret,              \* position of the return task spawned by the drop
    ret_page,         \* the page moved into that return task
    reset_result,     \* outcome of its page.goto("about:blank")
    released,         \* times return_page was started for the item's lease
    credits,          \* times add_permits(1) ran for the item's lease
    discarded_pages,  \* the pages return_page did not put back
    max_urls,         \* BatchConfig.max_urls (0 = unlimited)
    main,             \* position of run_concurrent_batch itself
    reports,          \* run_concurrent_batch's reports Vec (items, in order)
    errors,           \* run_concurrent_batch's errors Vec of (url, message)
    batch_report,     \* the BatchReport returned
    cb_calls,         \* times the task of the item called the progress callback
    closed,           \* times BrowserPool::close has run
    closed_pages,     \* the pages close() has closed
    args,             \* the CLI Args (NoArgs: not a CLI run)
    valid,            \* what Args::validate returned for args
    batch_config,     \* the BatchConfig built from args
    agg_in,           \* a Vec<AuditReport> handed to BatchReport::from_reports
    agg_out           \* the summaries from_reports gave for orderings of agg_in

vars == <<max_pages, concurrency, pool_semaphore, pages, pages_created,
          batch_semaphore, completed, pc, handle, result, current, expired,
          ret, ret_page, reset_result, released, credits, discarded_pages,
          max_urls, main,
          reports, errors, batch_report, cb_calls, closed, closed_pages,
          args, valid, batch_config, agg_in, agg_out>>

pool_vars == <<pool_semaphore, pages, pages_created>>
ret_vars == <<ret, ret_page, reset_result, released, credits, discarded_pages>>
cfg_vars == <<max_pages, concurrency, max_urls>>
main_vars == <<main, reports, errors, batch_report>>
close_vars == <<closed, closed_pages>>
cli_vars == <<args, valid, batch_config>>
agg_vars == <<agg_in, agg_out>>

\* ---------------------------------------------------------------- helpers
\* Variant of VecPop that reads the last element without removing it.
VecPopKeep(v) == v

\* Vec::pop takes the last element.
VecPop(v) == SubSeq(v, 1, Len(v) - 1)
VecLast(v) == v[Len(v)]
VecPush(v, x) == Append(v, x)

\* run_concurrent_batch: total_urls, for the NumUrls input URLs.
total_urls ==
    IF max_urls > 0
    THEN (IF max_urls < NumUrls THEN max_urls ELSE NumUrls)
    ELSE NumUrls

\* urls.into_iter().take(total_urls): the items a task is spawned for.
Scheduled == 1..total_urls

\* let total = total_urls: the total every task gives the progress callback.
total == total_urls

RECURSIVE SumViolations(_, _)
\* reports.iter().map(|r| r.violation_count()).sum() over the first n reports.
SumViolations(rs, n) ==
    IF n = 0 THEN 0 ELSE SumViolations(rs, n - 1) + rs[n].violations

\* Variant of from_reports that counts the passed reports with take_while
\* (the leading run) instead of filter.
from_reportsTakeWhile(rs) ==
    LET n == Len(rs)
        p == Cardinality({k \in 1..n : \A j \in 1..k : rs[j].passed})
    IN  [reports |-> rs, total_urls |-> n, passed |-> p, failed |-> n - p,
         total_violations |-> SumViolations(rs, n)]

\* BatchReport::from_reports: the reports and the summary counted from them.
\* A report is [url, passed, violations]: the item it is for, its
\* AuditReport::passed() and its violation_count().  (average_score, a float
\* sum, and total_duration_ms are left out.)
from_reports(rs) ==
    LET n == Len(rs)
        p == Cardinality({k \in 1..n : rs[k].passed})
    IN  [reports |-> rs, total_urls |-> n, passed |-> p, failed |-> n - p,
         total_violations |-> SumViolations(rs, n)]

\* batch_report before run_concurrent_batch has returned one.
NoReport == [reports |-> <<>>, total_urls |-> 0, passed |-> 0, failed |-> 0,
             total_violations |-> 0]

\* Variant of MutexHeld in which a handle keeps the pages guard for as long
\* as it lives.
MutexHeldDuringLease ==
    \E i \in Items : ret[i] = "pushed" \/ handle[i] # NoPage

\* The pages mutex is held by a return task between its push and the end of
\* the match arm (the guard lives until after add_permits).
MutexHeld == \E i \in Items : ret[i] = "pushed"

\* ---------------------------------------------------------------- Init
\* The call of run_concurrent_batch: the configuration is given, the pool
\* (whose fields are set here as BrowserPool::new will set them) is not
\* launched yet and no task exists.
BatchInit ==
    /\ max_pages \in 1..MaxCapacity
    /\ concurrency \in 1..MaxConcurrency
    /\ max_urls \in 0..NumUrls + 1
    /\ main = "start"
    /\ reports = <<>>
    /\ errors = <<>>
    /\ batch_report = NoReport
    /\ cb_calls = [i \in Items |-> 0]
    /\ pool_semaphore = max_pages
    /\ pages = <<>>
    /\ pages_created = 0
    /\ batch_semaphore = concurrency
    /\ completed = 0
    /\ pc = [i \in Items |-> "unspawned"]
    /\ handle = [i \in Items |-> NoPage]
    /\ result = [i \in Items |-> "none"]
    /\ current = [i \in Items |-> 0]
    /\ expired = [i \in Items |-> FALSE]
    /\ ret = [i \in Items |-> "none"]
    /\ ret_page = [i \in Items |-> NoPage]
    /\ reset_result = [i \in Items |-> "none"]
    /\ released = [i \in Items |-> 0]
    /\ credits = [i \in Items |-> 0]
    /\ discarded_pages = {}
    /\ closed = 0
    /\ closed_pages = {}

\* No CLI Args are in play and nothing is being aggregated apart from the
\* batch's own reports.
NoArgs == [concurrency |-> 0, max_pages |-> 0, inputs_ok |-> FALSE,
           verbose |-> FALSE, quiet |-> FALSE]
NoConfig == [concurrency |-> 0, max_urls |-> 0, max_pages |-> 0]

Init ==
    /\ BatchInit
    /\ args = NoArgs
    /\ valid = "none"
    /\ batch_config = NoConfig
    /\ agg_in = <<>>
    /\ agg_out = <<>>

\* ---------------------------------------------------------------- PooledPage
\* impl Drop for PooledPage: take the page and spawn return_page for it.
DropHandle(i) ==
    IF handle[i] # NoPage
    THEN /\ handle' = [handle EXCEPT ![i] = NoPage]
         /\ ret' = [ret EXCEPT ![i] = "resetting"]
         /\ ret_page' = [ret_page EXCEPT ![i] = handle[i]]
         /\ released' = [released EXCEPT ![i] = @ + 1]
    ELSE UNCHANGED <<handle, ret, ret_page, released>>

\* ---------------------------------------------------------------- the batch
\* Variant of StartBatch that spawns a task for every input URL (no
\* .take(total_urls)).
StartBatchSpawnsAll ==
    /\ main = "start"
    /\ \E launched \in BOOLEAN :
         IF launched
         THEN /\ main' = "join"
              /\ pc' = [i \in Items |-> "pending"]
         ELSE /\ main' = "returned_err"
              /\ UNCHANGED pc
    /\ UNCHANGED <<cfg_vars, close_vars, cli_vars, agg_vars, pool_vars, batch_semaphore, completed, handle,
                   result, current, expired, ret_vars, reports, errors,
                   batch_report, cb_calls>>

\* run_concurrent_batch up to the collecting loop: BrowserPool::new(..)
\* .await? either fails, which returns the error, or the pool exists and one
\* task is spawned for each of the first total_urls URLs.  A spawned task
\* that has not run yet does nothing, so the spawns are taken together.
StartBatch ==
    /\ main = "start"
    /\ \E launched \in BOOLEAN :
         IF launched
         THEN /\ main' = "join"
              /\ pc' = [i \in Items |->
                          IF i \in Scheduled THEN "pending" ELSE pc[i]]
         ELSE /\ main' = "returned_err"
              /\ UNCHANGED pc
    /\ UNCHANGED <<cfg_vars, close_vars, cli_vars, agg_vars, pool_vars, batch_semaphore, completed, handle,
                   result, current, expired, ret_vars, reports, errors,
                   batch_report, cb_calls>>

\* The collecting loop over the handles, in spawn order, up to item n:
\* Ok(report) goes to reports, Err(e) to errors as (url, message), and a
\* task that panicked is logged only.  f[i] is passed() of item i's report.
\* The report of item i as far as the batch reads it.  A report that did
\* not pass is given one violation, one that passed none.
ReportOf(i, ok) == [url |-> i, passed |-> ok, violations |-> IF ok THEN 0 ELSE 1]

RECURSIVE CollectReportsByCompletion(_, _)
\* Variant of CollectReports that takes the reports in the order the tasks
\* completed (by their `current`).
CollectReportsByCompletion(n, f) ==
    IF n = 0 THEN <<>>
    ELSE LET S == {i \in Scheduled : pc[i] = "done" /\ result[i] = "ok" /\ current[i] = n}
         IN  IF S = {} THEN CollectReportsByCompletion(n - 1, f)
             ELSE Append(CollectReportsByCompletion(n - 1, f),
                         ReportOf(CHOOSE i \in S : TRUE, f[CHOOSE i \in S : TRUE]))

RECURSIVE CollectReports(_, _), CollectErrors(_)
CollectReports(n, f) ==
    IF n = 0 THEN <<>>
    ELSE IF pc[n] = "done" /\ result[n] = "ok"
         THEN Append(CollectReports(n - 1, f), ReportOf(n, f[n]))
         ELSE CollectReports(n - 1, f)

CollectErrors(n) ==
    IF n = 0 THEN <<>>
    ELSE IF pc[n] = "done" /\ result[n] # "ok"
         THEN Append(CollectErrors(n - 1), <<n, result[n]>>)
         ELSE CollectErrors(n - 1)

\* Variant of Return that propagates the first item error with `?`.
ReturnPropagatesError ==
    /\ main = "join"
    /\ \A i \in Scheduled : pc[i] \in {"done", "panicked"}
    /\ IF CollectErrors(total_urls) # <<>>
       THEN /\ main' = "returned_err"
            /\ UNCHANGED <<reports, errors, batch_report>>
       ELSE /\ \E f \in [Scheduled -> BOOLEAN] :
                 /\ reports' = CollectReports(total_urls, f)
                 /\ batch_report' = from_reports(CollectReports(total_urls, f))
            /\ errors' = CollectErrors(total_urls)
            /\ main' = "returned_ok"
    /\ UNCHANGED <<cfg_vars, close_vars, cli_vars, agg_vars, pool_vars, batch_semaphore, completed, pc, handle,
                   result, current, expired, ret_vars, cb_calls>>

\* run_concurrent_batch from the collecting loop to the return.  Each
\* handle.await only reads the output its task ended with, so the loop is
\* taken in one step once the last task has ended; then
\* Ok(BatchReport::from_reports(reports, ..)) is returned.  What a report
\* says is opaque to the batch until from_reports reads passed(), so it is
\* drawn here, where it is first read.
Return ==
    /\ main = "join"
    /\ \A i \in Scheduled : pc[i] \in {"done", "panicked"}
    /\ \E f \in [Scheduled -> BOOLEAN] :
         /\ reports' = CollectReports(total_urls, f)
         /\ batch_report' = from_reports(CollectReports(total_urls, f))
    /\ errors' = CollectErrors(total_urls)
    /\ main' = "returned_ok"
    /\ UNCHANGED <<cfg_vars, close_vars, cli_vars, agg_vars, pool_vars, batch_semaphore, completed, pc, handle,
                   result, current, expired, ret_vars, cb_calls>>

\* run_batch_mode: the process exits non-zero iff summary.failed > 0.
ExitCode == IF batch_report.failed > 0 THEN 1 ELSE 0

\* ---------------------------------------------------------------- the task
\* Variant of Settle that reads the counter without adding to it.
SettleNoIncrement(i, r) ==
    /\ result' = [result EXCEPT ![i] = r]
    /\ completed' = completed
    /\ current' = [current EXCEPT ![i] = completed + 1]
    /\ pc' = [pc EXCEPT ![i] = "callback"]

\* The spawned task once audit_url_with_pool has returned the outcome r:
\* completed.fetch_add(1) + 1 is taken with no await point in between.
Settle(i, r) ==
    /\ result' = [result EXCEPT ![i] = r]
    /\ completed' = completed + 1
    /\ current' = [current EXCEPT ![i] = completed + 1]
    /\ pc' = [pc EXCEPT ![i] = "callback"]

\* Variant of SchedulerAcquire that starts the item without a permit.
SchedulerAcquireNoPermit(i) ==
    /\ pc[i] = "pending"
    /\ pc' = [pc EXCEPT ![i] = "wait_permit"]
    /\ UNCHANGED <<cfg_vars, close_vars, cli_vars, agg_vars, main_vars, cb_calls, pool_vars, batch_semaphore, completed, handle,
                   result, current, expired, ret_vars>>

\* semaphore.acquire().await of the spawned task.
SchedulerAcquire(i) ==
    /\ pc[i] = "pending"
    /\ batch_semaphore > 0
    /\ batch_semaphore' = batch_semaphore - 1
    /\ pc' = [pc EXCEPT ![i] = "wait_permit"]
    /\ UNCHANGED <<cfg_vars, close_vars, cli_vars, agg_vars, main_vars, cb_calls, pool_vars, completed, handle, result, current,
                   expired, ret_vars>>

\* Variant of AcquirePermit with no admission at all: acquire goes straight
\* to opening a new page, taking no permit and checking no limit.
AcquireUnbounded(i) ==
    /\ pc[i] = "wait_permit"
    /\ pages_created' = pages_created + 1
    /\ pc' = [pc EXCEPT ![i] = "creating"]
    /\ expired' = [expired EXCEPT ![i] = FALSE]
    /\ UNCHANGED <<cfg_vars, close_vars, cli_vars, agg_vars, main_vars, cb_calls, pool_semaphore, pages, batch_semaphore, completed,
                   handle, result, current, ret_vars>>

\* acquire: the semaphore grants a permit, which is forgotten.
AcquirePermit(i) ==
    /\ pc[i] = "wait_permit"
    /\ pool_semaphore > 0
    /\ pool_semaphore' = pool_semaphore - 1
    /\ pc' = [pc EXCEPT ![i] = "have_permit"]
    /\ expired' = [expired EXCEPT ![i] = FALSE]
    /\ UNCHANGED <<cfg_vars, close_vars, cli_vars, agg_vars, main_vars, cb_calls, pages, pages_created, batch_semaphore, completed,
                   handle, result, current, ret_vars>>

\* The acquire_timeout deadline of a waiting acquire passes.
Expire(i) ==
    /\ pc[i] = "wait_permit"
    /\ ~expired[i]
    /\ expired' = [expired EXCEPT ![i] = TRUE]
    /\ UNCHANGED <<cfg_vars, close_vars, cli_vars, agg_vars, main_vars, cb_calls, pool_vars, batch_semaphore, completed, pc, handle,
                   result, current, ret_vars>>

\* Variant of AcquireTimeout that waits again when the deadline passes.
AcquireTimeoutRetries(i) ==
    /\ pc[i] = "wait_permit"
    /\ pool_semaphore = 0
    /\ expired[i]
    /\ expired' = [expired EXCEPT ![i] = FALSE]
    /\ UNCHANGED <<cfg_vars, close_vars, cli_vars, agg_vars, main_vars, cb_calls, pool_vars, batch_semaphore, completed, pc, handle,
                   result, current, ret_vars>>

\* acquire: the deadline has passed with no permit: Err(PoolTimeout).
\* tokio::time::timeout polls the acquire first, so a free permit wins.
AcquireTimeout(i) ==
    /\ pc[i] = "wait_permit"
    /\ pool_semaphore = 0
    /\ expired[i]
    /\ Settle(i, "PoolTimeout")
    /\ expired' = [expired EXCEPT ![i] = FALSE]
    /\ UNCHANGED <<cfg_vars, close_vars, cli_vars, agg_vars, main_vars, cb_calls, pool_vars, batch_semaphore, handle, ret_vars>>

\* acquire: lock pages, pop; an idle page is handed out at once.
PopPage(i) ==
    /\ pc[i] = "have_permit"
    /\ ~MutexHeld
    /\ IF Len(pages) > 0
       THEN /\ handle' = [handle EXCEPT ![i] = VecLast(pages)]
            /\ pages' = VecPop(pages)
            /\ pc' = [pc EXCEPT ![i] = "running"]
       ELSE /\ pc' = [pc EXCEPT ![i] = "miss"]
            /\ UNCHANGED <<handle, pages>>
    /\ UNCHANGED <<cfg_vars, close_vars, cli_vars, agg_vars, main_vars, cb_calls, pool_semaphore, pages_created, batch_semaphore,
                   completed, result, current, expired, ret_vars>>

\* acquire: pages_created.fetch_add(1) and the limit check on its old value.
FetchAdd(i) ==
    /\ pc[i] = "miss"
    /\ pages_created' = pages_created + 1
    /\ pc' = [pc EXCEPT ![i] =
                IF pages_created >= max_pages THEN "exhausted" ELSE "creating"]
    /\ UNCHANGED <<cfg_vars, close_vars, cli_vars, agg_vars, main_vars, cb_calls, pool_semaphore, pages, batch_semaphore, completed,
                   handle, result, current, expired, ret_vars>>

\* acquire: pages_created.fetch_sub(1); return Err(PoolExhausted).
FetchSub(i) ==
    /\ pc[i] = "exhausted"
    /\ pages_created' = pages_created - 1
    /\ Settle(i, "PoolExhausted")
    /\ UNCHANGED <<cfg_vars, close_vars, cli_vars, agg_vars, main_vars, cb_calls, pool_semaphore, pages, batch_semaphore, handle,
                   expired, ret_vars>>

\* acquire: browser.new_page().await? -- the page an item creates is
\* numbered by the item; a failure leaves acquire through `?`.
NewPage(i) ==
    /\ pc[i] = "creating"
    /\ \E ok \in BOOLEAN :
         IF ok
         THEN /\ handle' = [handle EXCEPT ![i] = i]
              /\ pc' = [pc EXCEPT ![i] = "running"]
              /\ UNCHANGED <<result, completed, current>>
         ELSE /\ Settle(i, "BrowserLaunchFailed")
              /\ UNCHANGED handle
    /\ UNCHANGED <<cfg_vars, close_vars, cli_vars, agg_vars, main_vars, cb_calls, pool_vars, batch_semaphore, expired, ret_vars>>

\* What navigate + audit_page can end in: Ok(report), an Err taken by `?`,
\* or a panic.
PipelineOutcomes == {"ok", "failed", "panic"}

\* Variant of PipelineEnd in which a panic does not drop the handle.
PipelineEndLeakOnPanic(i) ==
    /\ pc[i] = "running"
    /\ \E o \in PipelineOutcomes :
         IF o = "panic"
         THEN /\ pc' = [pc EXCEPT ![i] = "panicked"]
              /\ result' = [result EXCEPT ![i] = o]
              /\ batch_semaphore' = batch_semaphore + 1
              /\ UNCHANGED <<completed, current, handle, ret, ret_page, released>>
         ELSE /\ Settle(i, o)
              /\ DropHandle(i)
              /\ UNCHANGED batch_semaphore
    /\ UNCHANGED <<cfg_vars, close_vars, cli_vars, agg_vars, main_vars, cb_calls, pool_vars, expired, reset_result, credits,
                   discarded_pages>>

\* Variant of PipelineEnd in which an Err of the pipeline keeps the handle
\* alive (the release is never initiated).
PipelineEndLeakOnError(i) ==
    /\ pc[i] = "running"
    /\ \E o \in PipelineOutcomes :
         IF o = "panic"
         THEN /\ pc' = [pc EXCEPT ![i] = "panicked"]
              /\ result' = [result EXCEPT ![i] = o]
              /\ batch_semaphore' = batch_semaphore + 1
              /\ UNCHANGED <<completed, current>>
              /\ DropHandle(i)
         ELSE /\ Settle(i, o)
              /\ UNCHANGED batch_semaphore
              /\ IF o = "failed"
                 THEN UNCHANGED <<handle, ret, ret_page, released>>
                 ELSE DropHandle(i)
    /\ UNCHANGED <<cfg_vars, close_vars, cli_vars, agg_vars, main_vars, cb_calls, pool_vars, expired, reset_result, credits,
                   discarded_pages>>

\* audit_url_with_pool: the pipeline call ends, the async block ends and
\* drops pooled_page.  A panic unwinds the task: the handle and the
\* scheduler permit are dropped and nothing else of the task runs.
PipelineEnd(i) ==
    /\ pc[i] = "running"
    /\ \E o \in PipelineOutcomes :
         IF o = "panic"
         THEN /\ pc' = [pc EXCEPT ![i] = "panicked"]
              /\ result' = [result EXCEPT ![i] = o]
              /\ batch_semaphore' = batch_semaphore + 1
              /\ UNCHANGED <<completed, current>>
         ELSE /\ Settle(i, o)
              /\ UNCHANGED batch_semaphore
    /\ DropHandle(i)
    /\ UNCHANGED <<cfg_vars, close_vars, cli_vars, agg_vars, main_vars, cb_calls, pool_vars, expired, reset_result, credits,
                   discarded_pages>>

\* Variant of ProgressCallback that queues a failed item again.
ProgressCallbackRequeue(i) ==
    /\ pc[i] = "callback"
    /\ pc' = [pc EXCEPT ![i] = IF result[i] = "ok" THEN "done" ELSE "pending"]
    /\ cb_calls' = [cb_calls EXCEPT ![i] = @ + 1]
    /\ batch_semaphore' = batch_semaphore + 1
    /\ UNCHANGED <<cfg_vars, close_vars, cli_vars, agg_vars, main_vars, pool_vars, completed, handle, result,
                   current, expired, ret_vars>>

\* Variant of ProgressCallback that never gives the scheduler permit back.
ProgressCallbackKeepsPermit(i) ==
    /\ pc[i] = "callback"
    /\ pc' = [pc EXCEPT ![i] = "done"]
    /\ cb_calls' = [cb_calls EXCEPT ![i] = @ + 1]
    /\ UNCHANGED <<cfg_vars, close_vars, cli_vars, agg_vars, main_vars, pool_vars, batch_semaphore, completed,
                   handle, result, current, expired, ret_vars>>

\* the task: cb(current, total, &url) with total = total_urls, the log
\* line, return; _permit is dropped.
ProgressCallback(i) ==
    /\ pc[i] = "callback"
    /\ pc' = [pc EXCEPT ![i] = "done"]
    /\ cb_calls' = [cb_calls EXCEPT ![i] = @ + 1]
    /\ batch_semaphore' = batch_semaphore + 1
    /\ UNCHANGED <<cfg_vars, close_vars, cli_vars, agg_vars, main_vars, pool_vars, completed, handle, result,
                   current, expired, ret_vars>>

\* ---------------------------------------------------------------- return_page
\* semaphore.add_permits(1) on behalf of the lease of item i.
AddPermits(i) ==
    /\ pool_semaphore' = pool_semaphore + 1
    /\ credits' = [credits EXCEPT ![i] = @ + 1]

\* return_page, Ok(Ok(_)): the reset succeeded; lock pages and push.
ReturnResetOk(i) ==
    /\ ret[i] = "resetting"
    /\ ~MutexHeld
    /\ reset_result' = [reset_result EXCEPT ![i] = "ok"]
    /\ pages' = VecPush(pages, ret_page[i])
    /\ ret' = [ret EXCEPT ![i] = "pushed"]
    /\ UNCHANGED <<cfg_vars, close_vars, cli_vars, agg_vars, main_vars, cb_calls, pool_semaphore, pages_created, batch_semaphore,
                   completed, pc, handle, result, current, expired, ret_page,
                   released, credits, discarded_pages>>

\* return_page, Ok(Ok(_)) continued: add_permits(1), then the guard drops.
ReturnRestore(i) ==
    /\ ret[i] = "pushed"
    /\ AddPermits(i)
    /\ ret' = [ret EXCEPT ![i] = "done"]
    /\ ret_page' = [ret_page EXCEPT ![i] = NoPage]
    /\ UNCHANGED <<cfg_vars, close_vars, cli_vars, agg_vars, main_vars, cb_calls, pages, pages_created, batch_semaphore, completed,
                   pc, handle, result, current, expired, reset_result, released,
                   discarded_pages>>

\* Variant of ReturnResetFailed that discards the page and its permit.
ReturnResetFailedNoPermit(i) ==
    /\ ret[i] = "resetting"
    /\ \E r \in {"err", "timeout"} :
         reset_result' = [reset_result EXCEPT ![i] = r]
    /\ ret' = [ret EXCEPT ![i] = "done"]
    /\ ret_page' = [ret_page EXCEPT ![i] = NoPage]
    /\ discarded_pages' = discarded_pages \cup {ret_page[i]}
    /\ UNCHANGED <<cfg_vars, close_vars, cli_vars, agg_vars, main_vars, cb_calls, pool_vars, batch_semaphore, completed, pc, handle,
                   result, current, expired, released, credits>>

\* Variant of ReturnResetFailed that puts the page back all the same.
ReturnResetFailedKeepsPage(i) ==
    /\ ret[i] = "resetting"
    /\ \E r \in {"err", "timeout"} :
         reset_result' = [reset_result EXCEPT ![i] = r]
    /\ AddPermits(i)
    /\ pages' = VecPush(pages, ret_page[i])
    /\ ret' = [ret EXCEPT ![i] = "done"]
    /\ ret_page' = [ret_page EXCEPT ![i] = NoPage]
    /\ discarded_pages' = discarded_pages \cup {ret_page[i]}
    /\ UNCHANGED <<cfg_vars, close_vars, cli_vars, agg_vars, main_vars, cb_calls, pages_created, batch_semaphore, completed,
                   pc, handle, result, current, expired, released>>

\* return_page, Ok(Err(e)) and Err(_): the page is not returned;
\* add_permits(1).
ReturnResetFailed(i) ==
    /\ ret[i] = "resetting"
    /\ \E r \in {"err", "timeout"} :
         reset_result' = [reset_result EXCEPT ![i] = r]
    /\ AddPermits(i)
    /\ ret' = [ret EXCEPT ![i] = "done"]
    /\ ret_page' = [ret_page EXCEPT ![i] = NoPage]
    /\ discarded_pages' = discarded_pages \cup {ret_page[i]}
    /\ UNCHANGED <<cfg_vars, close_vars, cli_vars, agg_vars, main_vars, cb_calls, pages, pages_created, batch_semaphore, completed,
                   pc, handle, result, current, expired, released>>

\* ---------------------------------------------------------------- Next
Next ==
    \/ StartBatch
    \/ Return
    \/ \E i \in Items : SchedulerAcquire(i)
    \/ \E i \in Items : AcquirePermit(i)
    \/ \E i \in Items : AcquireTimeout(i)
    \/ \E i \in Items : Expire(i)
    \/ \E i \in Items : PopPage(i)
    \/ \E i \in Items : FetchAdd(i)
    \/ \E i \in Items : FetchSub(i)
    \/ \E i \in Items : NewPage(i)
    \/ \E i \in Items : PipelineEnd(i)
    \/ \E i \in Items : ProgressCallback(i)
    \/ \E i \in Items : ReturnResetOk(i)
    \/ \E i \in Items : ReturnRestore(i)
    \/ \E i \in Items : ReturnResetFailed(i)

Spec == Init /\ [][Next]_vars

\* ---------------------------------------------------------------- close
\* BrowserPool::close(self): lock pages, drain the queue closing every page.
\* close takes the pool by value, so it can run only where no task shares
\* the BrowserPool any more (every spawned task has ended) and only once;
\* handles and return tasks hold the BrowserPoolInner, not the BrowserPool,
\* and may outlive it.  run_concurrent_batch itself never calls close.
Close ==
    /\ closed = 0
    /\ main \in {"join", "returned_ok"}
    /\ \A i \in Scheduled : pc[i] \in {"done", "panicked"}
    /\ ~MutexHeld
    /\ closed' = closed + 1
    /\ closed_pages' = {pages[k] : k \in 1..Len(pages)}
    /\ pages' = <<>>
    /\ UNCHANGED <<cfg_vars, cli_vars, agg_vars, main_vars, cb_calls,
                   pool_semaphore, pages_created, batch_semaphore, completed,
                   pc, handle, result, current, expired, ret_vars>>

\* The batch run by a caller that owns the pool and closes it.
PoolNext == Next \/ Close

PoolSpec == Init /\ [][PoolNext]_vars

\* ---------------------------------------------------------------- aggregation
\* BatchReport::from_reports on its own: a Vec of up to MaxReports reports
\* is aggregated in the order given and then in any other order.

\* The Vecs of reports tried: report k is for url k.
ReportVecs ==
    UNION {{[k \in 1..n |-> [url |-> k, passed |-> f[k].passed,
                            violations |-> f[k].violations]] :
              f \in [1..n -> [passed : BOOLEAN, violations : 0..MaxViolations]]} :
           n \in 0..MaxReports}

\* The orderings of n reports.
Orders(n) == {p \in [1..n -> 1..n] : \A a, b \in 1..n : a # b => p[a] # p[b]}

\* The Vec rs in the order p.
Reordered(rs, p) == [k \in 1..Len(rs) |-> rs[p[k]]]

\* BatchReport.summary (without average_score).
SummaryOf(br) ==
    [total_urls |-> br.total_urls, passed |-> br.passed, failed |-> br.failed,
     total_violations |-> br.total_violations]

AggInit ==
    /\ BatchInit
    /\ max_pages = 1 /\ concurrency = 1 /\ max_urls = 0
    /\ args = NoArgs
    /\ valid = "none"
    /\ batch_config = NoConfig
    /\ agg_in \in ReportVecs
    /\ agg_out = <<>>

\* from_reports(reports, ..) with the reports as given.
AggregateGiven ==
    /\ agg_out = <<>>
    /\ agg_out' = <<[order |-> [k \in 1..Len(agg_in) |-> k],
                    summary |-> SummaryOf(from_reports(agg_in))]>>
    /\ UNCHANGED <<cfg_vars, close_vars, cli_vars, main_vars, cb_calls,
                   pool_vars, batch_semaphore, completed, pc, handle, result,
                   current, expired, ret_vars, agg_in>>

\* from_reports(reports, ..) with the same reports in the order p.
AggregateReordered(p) ==
    /\ Len(agg_out) = 1
    /\ agg_out' = Append(agg_out,
                         [order |-> p,
                          summary |-> SummaryOf(from_reports(Reordered(agg_in, p)))])
    /\ UNCHANGED <<cfg_vars, close_vars, cli_vars, main_vars, cb_calls,
                   pool_vars, batch_semaphore, completed, pc, handle, result,
                   current, expired, ret_vars, agg_in>>

AggNext ==
    \/ AggregateGiven
    \/ \E p \in Orders(Len(agg_in)) : AggregateReordered(p)

AggSpec == AggInit /\ [][AggNext]_vars

\* ---------------------------------------------------------------- CLI
\* The command line of a batch run: Args::validate, then BatchConfig::from.

\* The Args tried.
ArgsTried ==
    [concurrency : 0..MaxArgConcurrency, max_pages : 0..MaxArgPages,
     inputs_ok : BOOLEAN, verbose : BOOLEAN, quiet : BOOLEAN]

ArgsInit ==
    /\ BatchInit
    /\ max_pages = 1 /\ concurrency = 1 /\ max_urls = 0
    /\ args \in ArgsTried
    /\ valid = "none"
    /\ batch_config = NoConfig
    /\ agg_in = <<>>
    /\ agg_out = <<>>

\* Args::validate; the checks of the input source (one given, only one, a
\* well-formed url or sitemap, an existing url_file) are inputs_ok.
validate(a) ==
    IF ~a.inputs_ok THEN "err"
    ELSE IF a.concurrency = 0 THEN "err"
    ELSE IF a.concurrency > ConcurrencyLimit THEN "err"
    ELSE IF a.verbose /\ a.quiet THEN "err"
    ELSE "ok"

\* Variant of BatchConfigFrom that sizes the pool by args.max_pages.
BatchConfigFromMaxPages(a) ==
    [concurrency |-> a.concurrency, max_urls |-> a.max_pages,
     max_pages |-> a.max_pages]

\* impl From<&Args> for BatchConfig; max_pages is pool_config.max_pages.
BatchConfigFrom(a) ==
    [concurrency |-> a.concurrency, max_urls |-> a.max_pages,
     max_pages |-> a.concurrency]

Validate ==
    /\ valid = "none"
    /\ valid' = validate(args)
    /\ UNCHANGED <<cfg_vars, close_vars, agg_vars, main_vars, cb_calls,
                   pool_vars, batch_semaphore, completed, pc, handle, result,
                   current, expired, ret_vars, args, batch_config>>

\* BatchConfig::from(&args); From itself asks for no validation.
BuildConfig ==
    /\ batch_config = NoConfig
    /\ batch_config' = BatchConfigFrom(args)
    /\ UNCHANGED <<cfg_vars, close_vars, agg_vars, main_vars, cb_calls,
                   pool_vars, batch_semaphore, completed, pc, handle, result,
                   current, expired, ret_vars, args, valid>>

ArgsNext == Validate \/ BuildConfig

ArgsSpec == ArgsInit /\ [][ArgsNext]_vars

\* ---------------------------------------------------------------- fairness
\* The runtime polls every woken task and its timers fire: a waiting
\* acquire whose deadline can pass sees it pass, and one that can be
\* resolved (a permit is free, or the deadline has passed) is resolved.
\* Nothing forces a pipeline call or a page reset to end.
\* The fair specifications leave out max_urls >= NumUrls, which schedules
\* the same items as max_urls = 0.
LiveInit == Init /\ max_urls < NumUrls

LiveSpec ==
    /\ LiveInit /\ [][Next]_vars
    /\ \A i \in Items : WF_vars(Expire(i))
    /\ \A i \in Items : WF_vars(AcquirePermit(i) \/ AcquireTimeout(i))

\* The steps of item i's task that wait for nothing but the runtime (and,
\* for the acquires, a free permit or the passed deadline; for PopPage, the
\* pages mutex).
TaskStep(i) ==
    \/ SchedulerAcquire(i)
    \/ AcquirePermit(i)
    \/ AcquireTimeout(i)
    \/ PopPage(i)
    \/ FetchAdd(i)
    \/ FetchSub(i)
    \/ NewPage(i)
    \/ ProgressCallback(i)

\* The steps of the return task of item i's lease; the reset is bounded by
\* its own 5 s timeout.
ReturnStep(i) ==
    \/ ReturnResetOk(i)
    \/ ReturnRestore(i)
    \/ ReturnResetFailed(i)

\* Every task and timer the runtime holds makes progress and
\* run_concurrent_batch itself is polled, but a pipeline call (navigate +
\* audit_page) may never return.
ProgressSpec ==
    /\ LiveInit /\ [][Next]_vars
    /\ WF_vars(StartBatch \/ Return)
    /\ \A i \in Items : WF_vars(Expire(i))
    /\ \A i \in Items : WF_vars(TaskStep(i))
    /\ \A i \in Items : WF_vars(ReturnStep(i))

\* The item whose pipeline call may hang: the first URL (the items differ
\* in nothing but their place in the input).
StuckItem == 1

\* As ProgressSpec, and every pipeline call but StuckItem's ends.
StuckSpec ==
    /\ ProgressSpec
    /\ \A i \in Items \ {StuckItem} : WF_vars(PipelineEnd(i))

\* As ProgressSpec, and every pipeline call ends.
TermSpec ==
    /\ ProgressSpec
    /\ \A i \in Items : WF_vars(PipelineEnd(i))

\* ---------------------------------------------------------------- properties
Range(f) == {f[x] : x \in DOMAIN f}

\* Items whose PooledPage handle is alive.
Held == {i \in Items : handle[i] # NoPage}

\* Leases whose permit has not been restored yet: the handle is alive, or
\* its return task has not reached add_permits.
Outstanding == {i \in Items : handle[i] # NoPage \/ ret[i] \in {"resetting", "pushed"}}

\* Items inside BrowserPool::acquire with the permit already taken.
InAcquire == {i \in Items : pc[i] \in {"have_permit", "miss", "exhausted", "creating"}}

\* Items whose pipeline call (navigate + audit_page) is in progress.
Running == {i \in Items : pc[i] = "running"}

\* Items whose lease has ended (the pipeline call returned or panicked).
LeaseEnded == {i \in Items : result[i] \in PipelineOutcomes}

\* Leases whose page was discarded by return_page.
Discarded == {i \in Items : reset_result[i] \in {"err", "timeout"}}

\* C1: the number of PooledPage handles held by callers never exceeds
\* max_pages.
C1_HeldAtMostCapacity == Cardinality(Held) <= max_pages

C1_Witness == max_pages = 2 /\ Cardinality(Held) = 2

\* C2: whenever no acquire is in the middle of its work, permits available
\* plus outstanding leases equals max_pages -- after successful and after
\* failed acquires alike.
C2_Conservation ==
    InAcquire = {} => pool_semaphore + Cardinality(Outstanding) = max_pages

\* C3: for every lease, return_page is started exactly once when the
\* holder's work ends (Ok, Err or panic), never before and never twice, and
\* the permit is credited exactly once, by the time the return task is done.
C3_ReleasedExactlyOnce ==
    \A i \in Items :
        /\ released[i] = (IF i \in LeaseEnded THEN 1 ELSE 0)
        /\ i \in LeaseEnded => handle[i] = NoPage
        /\ credits[i] = (IF ret[i] = "done" THEN 1 ELSE 0)
        /\ ret[i] # "none" <=> i \in LeaseEnded

C3_Witness ==
    \E i \in Items : result[i] = "panic" /\ ret[i] = "done" /\ credits[i] = 1

\* C4: the step that completes a release adds exactly one permit, in the
\* kept-page arm and in both discarding arms.
C4_ReleaseRestoresOnePermit ==
    [][\A i \in Items :
          (ret[i] # "done" /\ ret'[i] = "done") =>
              /\ pool_semaphore' = pool_semaphore + 1
              /\ reset_result'[i] \in {"ok", "err", "timeout"}]_vars

C4_Witness ==
    \E i, j \in Items :
        /\ ret[i] = "done" /\ reset_result[i] = "timeout"
        /\ ret[j] = "done" /\ reset_result[j] \in {"ok", "err"}

\* C5: once a lease has been released with a failed or timed-out reset, an
\* acquire that holds a permit and finds the idle queue empty creates a new
\* page (it is never refused), and the discarding release has restored the
\* permit.
C5_AcquireAfterDiscardCreates ==
    /\ \A i \in Items : Discarded # {} => pc[i] # "exhausted"
    /\ \A j \in Discarded : credits[j] = 1

\* C6: a caller that holds a permit and found the idle queue empty sees
\* pages_created < max_pages; no acquire returns PoolExhausted.
C6_NeverExhausted ==
    \A i \in Items :
        /\ pc[i] = "miss" => pages_created < max_pages
        /\ result[i] # "PoolExhausted"

\* C7: pages_created, as stats() reads it, is at most max_pages in every
\* state.
C7_CreatedAtMostCapacity == pages_created <= max_pages

\* C8: no page is in two handles at once, and no page is both in the idle
\* queue and in a handle.
C8_ExclusiveOwnership ==
    /\ \A i, j \in Held : i # j => handle[i] # handle[j]
    /\ \A i \in Held : handle[i] \notin Range(pages)

C8_Witness ==
    \E i, j \in Items : i # j /\ handle[j] = i /\ ret[i] = "done"

\* C9: an acquire never waits for a permit forever; it leaves the wait
\* without a permit only with PoolTimeout and only after its deadline, and
\* with no free permit and the deadline passed PoolTimeout is its only way
\* out.
C9_TimeoutInsteadOfHang ==
    /\ \A i \in Items : (pc[i] = "wait_permit") ~> (pc[i] # "wait_permit")
    /\ [][\A i \in Items :
            (pc[i] = "wait_permit" /\ pc'[i] # "wait_permit" /\ pool_semaphore = 0) =>
                (expired[i] /\ result'[i] = "PoolTimeout")]_vars

C9_Witness ==
    \E i, j \in Items :
        /\ max_pages = 1
        /\ pc[j] = "running"
        /\ result[i] = "PoolTimeout"

\* C10: the number of pipeline calls in progress never exceeds
\* min(concurrency, max_pages).
C10_ActiveAtMostMin ==
    Cardinality(Running) <= (IF concurrency < max_pages THEN concurrency ELSE max_pages)

C10_Witness == concurrency = 2 /\ max_pages = 2 /\ Cardinality(Running) = 2

\* Scheduled items whose task has ended.
TaskEnded == {i \in Scheduled : pc[i] \in {"done", "panicked"}}

\* C11: whatever the pipeline call ends in, the item's handle has been
\* dropped (return_page started for its lease) by the time the item's
\* outcome is recorded; once every task has ended and every return task
\* has finished no lease is outstanding.
C11_ReleasedBeforeOutcome ==
    /\ \A i \in Items :
          result[i] # "none" =>
              /\ handle[i] = NoPage
              /\ result[i] \in PipelineOutcomes => ret[i] # "none"
    /\ (/\ main # "start"
        /\ TaskEnded = Scheduled
        /\ \A i \in Items : ret[i] \in {"none", "done"})
       => /\ Outstanding = {}
          /\ \A i \in Items : handle[i] = NoPage /\ ret_page[i] = NoPage

C11_Witness ==
    /\ TaskEnded = Scheduled
    /\ \E i \in Items : result[i] = "failed" /\ ret[i] = "done"
    /\ \A i \in Items : ret[i] \in {"none", "done"}

\* C12: when the pipeline call of item x fails, no other item y is refused
\* its page: y's outcome is the one its own pipeline call gives, whatever
\* becomes of the page x had (kept or discarded by return_page).
C12_FailureIsolated ==
    \A x, y \in Items :
        (x # y /\ result[x] = "failed") => result[y] # "PoolExhausted"

\* C13: the BatchReport returned accounts for exactly one outcome per
\* scheduled URL -- NumUrls of them with max_urls = 0, the first max_urls
\* with max_urls < NumUrls: its successes plus its failures number
\* total_urls and its reports are for scheduled URLs only.  Stated for the
\* runs in which every task returned its outcome (none panicked).
C13_AccountsForScheduled ==
    (main = "returned_ok" /\ \A i \in Scheduled : pc[i] = "done") =>
        /\ batch_report.passed + batch_report.failed = total_urls
        /\ batch_report.total_urls = total_urls
        /\ \A k \in 1..Len(batch_report.reports) :
              batch_report.reports[k].url \in Scheduled

\* C14: a task that panics does not keep the batch from returning, and the
\* collecting loop turns it into a failed outcome for its URL: the URL is
\* among the (url, message) errors or among the reports.
C14_PanicBecomesFailure ==
    main = "returned_ok" =>
        \A i \in Scheduled :
            pc[i] = "panicked" =>
                \/ \E k \in 1..Len(errors) : errors[k][1] = i
                \/ \E k \in 1..Len(batch_report.reports) :
                      batch_report.reports[k].url = i

\* Outcomes of audit_url_with_pool that are an Err.
ItemErrors == {"PoolTimeout", "PoolExhausted", "BrowserLaunchFailed", "failed"}

\* C15: run_concurrent_batch returns Err only from BrowserPool::new: then no
\* task was spawned, no page acquired or created and no callback made.  Once
\* a task exists the only return is Ok with the BatchReport built from the
\* reports, whichever errors the items ended in.
C15_ErrOnlyFromLaunch ==
    /\ main = "returned_err" =>
          /\ \A i \in Items :
                /\ pc[i] = "unspawned"
                /\ handle[i] = NoPage /\ ret[i] = "none"
                /\ result[i] = "none" /\ cb_calls[i] = 0
          /\ pool_semaphore = max_pages /\ pages_created = 0 /\ pages = <<>>
          /\ batch_semaphore = concurrency /\ completed = 0
          /\ batch_report = NoReport
    /\ main = "returned_ok" =>
          /\ TaskEnded = Scheduled
          /\ batch_report = from_reports(reports)
    /\ main \in {"start", "join", "returned_ok", "returned_err"}

C15_Witness ==
    /\ main = "returned_ok"
    /\ \E i, j \in Scheduled : result[i] = "failed" /\ result[j] = "PoolExhausted"

\* Items whose task got an outcome from audit_url_with_pool and took its
\* `current` from the counter.
Settled == {i \in Items : pc[i] \in {"callback", "done"}}

\* Items whose task has called the progress callback.
Delivered == {i \in Items : cb_calls[i] > 0}

\* C16: the callback is called exactly once for every item whose task
\* returns an outcome, success or failure, and for no other; the completed
\* values handed to it are pairwise distinct, never exceed the total
\* (total_urls, the number of scheduled items), and are exactly 1..k once the
\* k items that settle have all called back.
C16_CallbackOncePerOutcome ==
    /\ \A i \in Items : cb_calls[i] = (IF pc[i] = "done" THEN 1 ELSE 0)
    /\ \A i, j \in Settled : i # j => current[i] # current[j]
    /\ {current[i] : i \in Settled} = 1..completed
    /\ \A i \in Settled : current[i] <= total_urls
    /\ (main # "start" /\ TaskEnded = Scheduled) =>
          {current[i] : i \in Delivered} = 1..Cardinality(Delivered)

C16_Witness ==
    \E i, j \in Items :
        /\ cb_calls[i] = 1 /\ current[i] = 2 /\ result[i] = "failed"
        /\ cb_calls[j] = 0 /\ current[j] = 1

\* C17: in the BatchReport returned, summary.total_urls is the number of
\* scheduled items and summary.failed > 0 whenever a scheduled URL ended in
\* an error, so that run_batch_mode exits non-zero.
C17_ErrorsCountedAsFailed ==
    main = "returned_ok" =>
        /\ batch_report.total_urls = total_urls
        /\ (\E i \in Scheduled : result[i] \in ItemErrors) =>
              (batch_report.failed > 0 /\ ExitCode = 1)

\* The work item's state for a position of its task: Pending (1), Admitted
\* (2: scheduler permit held, acquiring a page), Running (3: the pipeline
\* call), Completed (4); 0 before the task is spawned.
ItemState(p) ==
    CASE p = "unspawned" -> 0
      [] p = "pending" -> 1
      [] p \in {"wait_permit", "have_permit", "miss", "exhausted", "creating"} -> 2
      [] p = "running" -> 3
      [] p \in {"callback", "done", "panicked"} -> 4

\* Items whose task holds a scheduler permit (_permit is alive).
PermitHolders ==
    {i \in Items : ItemState(pc[i]) \in {2, 3} \/ pc[i] = "callback"}

\* C18: an item only moves forward through Pending, Admitted, Running,
\* Completed: the scheduler permit is taken once (on leaving Pending), the
\* pipeline call starts once and runs only with the scheduler permit and a
\* handle held, the outcome is set once, and a completed item stays
\* completed.
C18_ForwardOnly ==
    /\ [](/\ batch_semaphore + Cardinality(PermitHolders) = concurrency
          /\ \A i \in Running : handle[i] # NoPage /\ i \in PermitHolders)
    /\ [][\A i \in Items :
            /\ ItemState(pc'[i]) >= ItemState(pc[i])
            /\ (pc[i] = "pending" /\ pc'[i] # "pending") =>
                  (pc'[i] = "wait_permit" /\ batch_semaphore' = batch_semaphore - 1)
            /\ (pc[i] # "running" /\ pc'[i] = "running") => ItemState(pc[i]) = 2
            /\ result[i] # "none" => result'[i] = result[i]
            /\ pc[i] \in {"done", "panicked"} => pc'[i] = pc[i]]_vars

C18_Witness ==
    \E i, j \in Items :
        /\ pc[i] = "done" /\ result[i] = "ok"
        /\ pc[j] = "done" /\ result[j] = "failed"

\* Outcomes that are not the pipeline's or the browser's doing to refuse:
\* the environment failures a clean run is free of.
CleanRun ==
    /\ \A i \in Items : result[i] \notin {"failed", "panic", "BrowserLaunchFailed", "PoolTimeout"}
    /\ Discarded = {}

C22_PoolClosedAtReturn ==
    main = "returned_ok" => (closed = 1 /\ pages = <<>>)

\* C23: from_reports gives the same total_urls, passed, failed and
\* total_violations for every ordering of the same reports, and
\* total_urls = passed + failed (and is the number of reports).
C23_SummaryOrderIndependent ==
    /\ \A a, b \in 1..Len(agg_out) : agg_out[a].summary = agg_out[b].summary
    /\ \A a \in 1..Len(agg_out) :
          /\ agg_out[a].summary.total_urls =
                agg_out[a].summary.passed + agg_out[a].summary.failed
          /\ agg_out[a].summary.total_urls = Len(agg_in)

C23_Witness ==
    /\ Len(agg_in) = 3
    /\ agg_in[1].passed /\ ~agg_in[2].passed /\ agg_in[3].violations = 1
    /\ Len(agg_out) = 2
    /\ agg_out[2].order = <<3, 1, 2>>
    /\ agg_out[2].summary.passed = 1

\* Outcomes with which BrowserPool::acquire itself fails.
AcquireErrors == {"PoolTimeout", "PoolExhausted", "BrowserLaunchFailed"}

\* C24: an acquire that returned an error has reduced nothing: the permits
\* still add up to max_pages (available + held inside an acquire + leased),
\* and when failed acquires are all that has happened to the pool it is as
\* new: every permit available, no page counted, the idle queue empty.
C24_FailedAcquireLeavesPool ==
    (\E i \in Items : result[i] \in AcquireErrors) =>
        /\ pool_semaphore + Cardinality(InAcquire) + Cardinality(Outstanding) = max_pages
        /\ (/\ \A j \in Items : result[j] \in AcquireErrors \cup {"none"}
            /\ \A j \in Items : pc[j] \notin {"wait_permit", "running"}
            /\ InAcquire = {})
           => (pool_semaphore = max_pages /\ pages_created = 0 /\ pages = <<>>)

\* C25: a page whose reset failed or timed out is in no handle, in no return
\* task and not in the idle queue ever after; the release that discards it
\* leaves the queue as it was, and the queue grows only by the page of a
\* release whose reset succeeded.
C25_IdleQueueHoldsResetPages ==
    /\ [](\A p \in discarded_pages :
            /\ p \notin Range(pages)
            /\ \A i \in Items : handle[i] # p /\ ret_page[i] # p)
    /\ [][\A i \in Items :
            /\ (ret[i] = "resetting" /\ reset_result'[i] \in {"err", "timeout"})
                  => pages' = pages
            /\ (ret[i] = "resetting" /\ ret'[i] = "pushed")
                  => (reset_result'[i] = "ok" /\ pages' = Append(pages, ret_page[i]))
            /\ Len(pages') > Len(pages)
                  => \E j \in Items : ret[j] = "resetting" /\ ret'[j] = "pushed"]_vars

C25_Witness ==
    \E i, j \in Items :
        /\ i # j
        /\ concurrency = 1
        /\ discarded_pages = {i}
        /\ handle[j] = j

\* Items for which a task has been spawned.
Spawned == {i \in Items : pc[i] # "unspawned"}

\* The number of URLs the claim says are scheduled.
ExpectedCount ==
    IF max_urls = 0 THEN NumUrls
    ELSE IF max_urls <= NumUrls THEN max_urls ELSE NumUrls

\* C26: the tasks spawned are those of the first min(max_urls, NumUrls)
\* input URLs when max_urls > 0 and of all NumUrls when max_urls = 0 (none
\* before the pool exists), a spawned task is never spawned again, and the
\* total given to the progress callback is that count.
C26_SpawnedAreFirstUrls ==
    /\ [](Spawned = (IF main \in {"start", "returned_err"} THEN {} ELSE 1..ExpectedCount))
    /\ [](\A i \in Items : cb_calls[i] > 0 => total = ExpectedCount)
    /\ [][\A i \in Items : i \in Spawned => pc'[i] \notin {"unspawned", "pending"} \/ pc'[i] = pc[i]]_vars

C26_Witness ==
    /\ max_urls = 1
    /\ pc[1] = "done" /\ cb_calls[1] = 1
    /\ \A i \in Items \ {1} : pc[i] = "unspawned"

\* C27: the reports of the BatchReport are in the order of their URLs in the
\* input, in whatever order the tasks completed.
C27_ReportsInInputOrder ==
    \A a, b \in 1..Len(batch_report.reports) :
        a < b => batch_report.reports[a].url < batch_report.reports[b].url

C27_Witness ==
    /\ main = "returned_ok"
    /\ Len(batch_report.reports) = 2
    /\ \E i, j \in Scheduled : i < j /\ current[j] < current[i]
                               /\ result[i] = "ok" /\ result[j] = "ok"

\* C28: the progress callback is called in the order of the counts: a task
\* that has its count but has not called back yet holds a larger count than
\* every task that has called back.
C28_CallbackCountsIncrease ==
    \A i, j \in Settled :
        (cb_calls[i] > 0 /\ cb_calls[j] = 0) => current[i] < current[j]

\* C29: once close() has run, the pages that were idle are closed, no page
\* in a handle was closed, and the idle queue is empty and stays empty: a
\* lease still resetting when close() ran leaves no page in the queue later.
C29_ClosedPoolStaysEmpty ==
    closed = 1 =>
        /\ pages = <<>>
        /\ \A i \in Items : handle[i] \notin closed_pages

\* C30: a BatchConfig built from Args that passed validate() has
\* concurrency = pool_config.max_pages, both within 1..10.
C30_ConfigConcurrencyIsCapacity ==
    (valid = "ok" /\ batch_config # NoConfig) =>
        /\ batch_config.concurrency = batch_config.max_pages
        /\ batch_config.concurrency \in 1..10
        /\ batch_config.concurrency = args.concurrency

C30_Witness ==
    /\ valid = "ok"
    /\ args.concurrency = 10 /\ args.max_pages = 2
    /\ batch_config.concurrency = 10 /\ batch_config.max_pages = 10

====
